---- MODULE Spec2Model ----
(***************************************************************************)
(* Push-to-talk gesture machine of quip's desktop client:                  *)
(*   VoiceHandler      (src/desktop/voice/voice_handler.py)                *)
(*   QuipApplication   (src/desktop/core/app.py, the Tab handlers and the  *)
(*                      root.after timers)                                 *)
(*   VoiceRecorder     (src/desktop/voice_recorder.py)                     *)
(*   TranscriptionService (src/desktop/transcription.py)                   *)
(*                                                                         *)
(* Time is discrete; one tick is 100 ms.  Timestamps are kept relative to   *)
(* the present: time.time() always reads `now`, and a tick moves every     *)
(* stored timestamp and every timer's due time one tick towards the past.  *)
(* The code only compares elapsed times with its thresholds, so a          *)
(* timestamp older than the longest of them is kept at Oldest.  A Tk       *)
(* `after` timer fires in the tick it is due (never early), in due order,  *)
(* interleaved freely with the key events of that tick.  A timestamp that  *)
(* is None in the code is NoTime (every real timestamp is truthy, as in    *)
(* the code).                                                              *)
(***************************************************************************)
EXTENDS Integers, Sequences, FiniteSets, TLC

VARIABLES
    timers,   \* pending root.after callbacks, ordered by due time
    vh,       \* the VoiceHandler's fields
    rec,      \* the VoiceRecorder's fields and its capture thread
    ts,       \* the TranscriptionService's fields and its threads
    th,       \* position of the two background loader threads, and of the
              \* UI thread inside stop_voice_recording (ui)
    obs,      \* what the last step did: handler, results, callbacks invoked
    span      \* history of the current physical press span

vars == <<timers, vh, rec, ts, th, obs, span>>

----------------------------------------------------------------------------
(* Bounds *)
MaxTimers == 3    \* pending timers
MaxChunks == 1    \* audio chunks the capture thread appends per recording
MaxJobs   == 1    \* transcription threads in flight
MaxTranscribeThreads == 3   \* _transcribe_audio threads followed statement by statement
MaxInitThreads == 2   \* _initialize_engine threads alive at a time

(* Program constants, in ticks of 100 ms *)
tab_hold_threshold    == 2   \* voice_hold_threshold_ms = 200
release_debounce_time == 1   \* 0.1 s
recording_tail_time   == 3   \* voice_recording_tail_ms = 300
recorder_load_delay   == 1   \* root.after(100, ...)

NoTime == 0

\* the oldest timestamp told apart, and the present
Oldest == NoTime + 1
now == Oldest + tab_hold_threshold

Max(a, b) == IF a > b THEN a ELSE b

Min(a, b) == IF a < b THEN a ELSE b

Earlier(t) == IF t = NoTime THEN NoTime ELSE Max(t - 1, Oldest)

----------------------------------------------------------------------------
(* A handler runs on a frame s: the objects it touches (vh, rec, ts), the  *)
(* pending timers, the callbacks it has invoked so far (cb) and the value  *)
(* of its last call (ret; audio for the recorder's samples).               *)

Call(s, name) == [s EXCEPT !.cb = Append(@, name)]

Ret(s, v) == [s EXCEPT !.ret = v]

IsTranscriptionCb(name) ==
    name \in {"on_transcription_start", "on_transcription_complete",
              "on_transcription_error:loading",
              "on_transcription_error:unavailable",
              "on_transcription_error:not_initialized",
              "on_transcription_error:engine",
              "on_transcription_error:callback"}

\* the two notifications that end a transcription request for the UI
IsTerminalCb(name) ==
    IsTranscriptionCb(name) /\ name # "on_transcription_start"

Terminals(cbs) == Cardinality({i \in 1..Len(cbs) : IsTerminalCb(cbs[i])})

Invoked(cbs, name) == \E i \in 1..Len(cbs) : cbs[i] = name

Count(cbs, name) == Cardinality({i \in 1..Len(cbs) : cbs[i] = name})

----------------------------------------------------------------------------
(* VoiceRecorder *)

NewRecorder == [is_recording |-> FALSE, audio_data |-> 0,
                recording_thread |-> "none"]

\* start_recording: thread_ok is whether Thread(...).start() succeeds
start_recording(s, thread_ok) ==
    IF s.rec.is_recording THEN Ret(s, "False")
    ELSE IF thread_ok
         THEN Ret([s EXCEPT !.rec = [is_recording |-> TRUE, audio_data |-> 0,
                                     recording_thread |-> "alive"]], "True")
         ELSE Ret([s EXCEPT !.rec = [is_recording |-> FALSE, audio_data |-> 0,
                                     recording_thread |-> "dead"]], "False")

\* stop_recording: audio = number of chunks returned, 0 for None
stop_recording(s) ==
    IF ~s.rec.is_recording THEN [s EXCEPT !.audio = 0]
    ELSE [s EXCEPT !.rec.is_recording = FALSE,
                   !.rec.recording_thread = "dead",
                   !.audio = s.rec.audio_data]

----------------------------------------------------------------------------
(* TranscriptionService *)

\* transcribe_async that reports the missing initialization and starts the
\* transcription thread all the same
transcribe_async_starts_anyway(s) ==
    LET s1 == Call(s, "transcribe_async") IN
    IF ~s1.ts.is_initialized
    THEN [Call(s1, "on_transcription_error:not_initialized")
             EXCEPT !.ts.jobs = @ + 1]
    ELSE [s1 EXCEPT !.ts.jobs = @ + 1]

transcribe_async(s) ==
    LET s1 == Call(s, "transcribe_async") IN
    IF ~s1.ts.is_initialized
    THEN Call(s1, "on_transcription_error:not_initialized")
    ELSE [s1 EXCEPT !.ts.jobs = @ + 1]

----------------------------------------------------------------------------
(* VoiceHandler *)

\* _ensure_voice_recorder_loaded: ctor_ok is whether VoiceRecorder() can be
\* imported and constructed
ensure_voice_recorder_loaded(s, ctor_ok) ==
    IF s.vh.voice_recorder THEN Ret(s, "True")
    ELSE IF s.vh.voice_recorder_loading THEN Ret(s, "False")
    ELSE IF s.vh.voice_recorder_failed THEN Ret(s, "False")
    ELSE IF ctor_ok
         THEN Ret([s EXCEPT !.vh.voice_recorder = TRUE,
                            !.rec = NewRecorder], "True")
         ELSE Ret([s EXCEPT !.vh.voice_recorder_failed = TRUE], "False")

\* stop_voice_recording that hands over whatever the recorder returned
stop_voice_recording_any_audio(s) ==
    IF ~s.vh.recording_mode THEN s
    ELSE
      LET s1 == [s EXCEPT !.vh.recording_mode = FALSE]
          s2 == IF s1.vh.voice_recorder THEN stop_recording(s1)
                ELSE [s1 EXCEPT !.audio = 0]
      IN IF s2.vh.transcription_service
         THEN transcribe_async(Call(s2, "on_transcription_start"))
         ELSE IF s2.vh.transcription_loading
              THEN Call(s2, "on_transcription_error:loading")
              ELSE Call(s2, "on_transcription_error:unavailable")

stop_voice_recording(s) ==
    IF ~s.vh.recording_mode THEN s
    ELSE
      LET s1 == [s EXCEPT !.vh.recording_mode = FALSE]
          s2 == IF s1.vh.voice_recorder THEN stop_recording(s1)
                ELSE [s1 EXCEPT !.audio = 0]
      IN IF s2.audio > 0
         THEN IF s2.vh.transcription_service
              THEN transcribe_async(Call(s2, "on_transcription_start"))
              ELSE IF s2.vh.transcription_loading
                   THEN Call(s2, "on_transcription_error:loading")
                   ELSE Call(s2, "on_transcription_error:unavailable")
         ELSE Call(s2, "on_recording_stop")

\* start_voice_recording that reports a failed start without unwinding
start_voice_recording_no_unwind(s, ctor_ok, thread_ok) ==
    IF s.vh.recording_mode THEN Ret(s, "True")
    ELSE
      LET s1 == Call([s EXCEPT !.vh.recording_mode = TRUE,
                               !.starts = @ + 1], "on_recording_start")
          s2 == ensure_voice_recorder_loaded(s1, ctor_ok)
      IN IF s2.ret = "False"
         THEN Ret(s2, "False")
         ELSE LET s3 == Call(start_recording(s2, thread_ok),
                             "recorder.start_recording")
              IN IF s3.ret = "False"
                 THEN Ret(s3, "False")
                 ELSE Ret(s3, "True")

\* start_voice_recording without the early return of lines 339-340
start_voice_recording_restarts(s, ctor_ok, thread_ok) ==
    LET s1 == Call([s EXCEPT !.vh.recording_mode = TRUE,
                             !.starts = @ + 1], "on_recording_start")
        s2 == ensure_voice_recorder_loaded(s1, ctor_ok)
    IN IF s2.ret = "False"
       THEN Ret(stop_voice_recording(s2), "False")
       ELSE LET s3 == Call(start_recording(s2, thread_ok),
                           "recorder.start_recording")
            IN IF s3.ret = "False"
               THEN Ret(stop_voice_recording(s3), "False")
               ELSE Ret(s3, "True")

start_voice_recording(s, ctor_ok, thread_ok) ==
    IF s.vh.recording_mode THEN Ret(s, "True")
    ELSE
      LET s1 == Call([s EXCEPT !.vh.recording_mode = TRUE,
                               !.starts = @ + 1], "on_recording_start")
          s2 == ensure_voice_recorder_loaded(s1, ctor_ok)
      IN IF s2.ret = "False"
         THEN Ret(stop_voice_recording(s2), "False")
         ELSE LET s3 == Call(start_recording(s2, thread_ok),
                             "recorder.start_recording")
              IN IF s3.ret = "False"
                 THEN Ret(stop_voice_recording(s3), "False")
                 ELSE Ret(s3, "True")

InDebounceWindow(s, t) ==
    /\ s.vh.tab_release_time # NoTime
    /\ t - s.vh.tab_release_time < release_debounce_time

\* on_tab_press that takes a repeat event for a new press
on_tab_press_repeat_restarts(s, t) ==
    IF InDebounceWindow(s, t)
    THEN LET s1 == [s EXCEPT !.vh.tab_physically_pressed = TRUE]
             s2 == IF s1.vh.recording_tail_active
                   THEN Call([s1 EXCEPT !.vh.recording_tail_active = FALSE],
                             "on_recording_start")
                   ELSE s1
         IN Ret(s2, "continue_hold")
    ELSE Ret([s EXCEPT !.vh.tab_press_time = t,
                       !.vh.tab_physically_pressed = TRUE,
                       !.vh.tab_consumed_as_hold = FALSE,
                       !.vh.tab_release_time = NoTime],
             IF s.vh.tab_physically_pressed THEN "ignore_repeat"
             ELSE "start_timing")

on_tab_press(s, t) ==
    IF InDebounceWindow(s, t)
    THEN LET s1 == [s EXCEPT !.vh.tab_physically_pressed = TRUE]
             s2 == IF s1.vh.recording_tail_active
                   THEN Call([s1 EXCEPT !.vh.recording_tail_active = FALSE],
                             "on_recording_start")
                   ELSE s1
         IN Ret(s2, "continue_hold")
    ELSE IF ~s.vh.tab_physically_pressed
         THEN Ret([s EXCEPT !.vh.tab_press_time = t,
                            !.vh.tab_physically_pressed = TRUE,
                            !.vh.tab_consumed_as_hold = FALSE,
                            !.vh.tab_release_time = NoTime], "start_timing")
         ELSE Ret(s, "ignore_repeat")

\* check_tab_hold that marks the press as consumed before its test
check_tab_hold_marks_first(s, ctor_ok, thread_ok) ==
    LET s1 == [s EXCEPT !.vh.tab_consumed_as_hold = TRUE]
    IN IF ~s1.vh.tab_physically_pressed \/ s1.vh.recording_mode
       THEN Ret(s1, "None")
       ELSE start_voice_recording(s1, ctor_ok, thread_ok)

check_tab_hold(s, ctor_ok, thread_ok) ==
    IF ~s.vh.tab_physically_pressed \/ s.vh.recording_mode
    THEN Ret(s, "None")
    ELSE start_voice_recording([s EXCEPT !.vh.tab_consumed_as_hold = TRUE],
                               ctor_ok, thread_ok)

on_tab_release(s, t) ==
    IF ~s.vh.tab_physically_pressed THEN Ret(s, "already_released")
    ELSE Ret([s EXCEPT !.vh.tab_physically_pressed = FALSE,
                       !.vh.tab_release_time = t], "process_release")

\* process_tab_release_after_debounce that starts the tail without telling
\* the UI
process_tab_release_after_debounce_silent(s) ==
    IF ~s.vh.tab_physically_pressed /\ s.vh.recording_mode
    THEN [s EXCEPT !.vh.recording_tail_active = TRUE]
    ELSE s

process_tab_release_after_debounce(s) ==
    IF ~s.vh.tab_physically_pressed /\ s.vh.recording_mode
    THEN Call([s EXCEPT !.vh.recording_tail_active = TRUE],
              "on_recording_tail_start")
    ELSE s

process_final_tab_release(s) ==
    IF s.vh.tab_press_time = NoTime THEN s
    ELSE IF s.vh.recording_mode THEN stop_voice_recording(s)
    ELSE s

stop_recording_tail(s) ==
    IF s.vh.recording_tail_active /\ ~s.vh.tab_physically_pressed
    THEN process_final_tab_release(
             [s EXCEPT !.vh.recording_tail_active = FALSE])
    ELSE IF s.vh.tab_physically_pressed
         THEN Call([s EXCEPT !.vh.recording_tail_active = FALSE],
                   "on_recording_start")
         ELSE s

\* process_immediate_tab_release without the test of tab_consumed_as_hold
process_immediate_tab_release_ignores_hold(s, t) ==
    IF s.vh.tab_press_time = NoTime THEN Ret(s, "no_press_time")
    ELSE IF s.vh.recording_mode
         THEN Ret(stop_voice_recording(s), "stop_recording")
         ELSE IF t - s.vh.tab_press_time < tab_hold_threshold
              THEN Ret(s, "insert_tab")
              ELSE Ret(s, "already_handled")

process_immediate_tab_release(s, t) ==
    IF s.vh.tab_press_time = NoTime THEN Ret(s, "no_press_time")
    ELSE IF s.vh.recording_mode
         THEN Ret(stop_voice_recording(s), "stop_recording")
         ELSE IF ~s.vh.tab_consumed_as_hold
                 /\ t - s.vh.tab_press_time < tab_hold_threshold
              THEN Ret(s, "insert_tab")
              ELSE Ret(s, "already_handled")

get_transcription_status(h) ==
    IF h.transcription_service THEN "ready"
    ELSE IF h.transcription_loading THEN "loading"
    ELSE IF h.transcription_failed THEN "failed"
    ELSE "not_started"

----------------------------------------------------------------------------
(* QuipApplication: the Tab bindings and the callbacks it hands to         *)
(* root.after.  The pending timers are kept in the order Tk fires them (by *)
(* due time, then by creation).  rp records, for a timer, that the key was *)
(* physically pressed again after the timer was scheduled.                 *)

Timer(kind, due) == [kind |-> kind, due |-> due, rp |-> FALSE]

NoTimer == Timer("none", NoTime)

RECURSIVE After(_, _)
After(q, tm) ==
    IF q = <<>> THEN <<tm>>
    ELSE IF Head(q).due <= tm.due THEN <<Head(q)>> \o After(Tail(q), tm)
    ELSE <<tm>> \o q

\* root.after(delay, callback)
root_after(s, delay, kind) ==
    [s EXCEPT !.timers = After(@, Timer(kind, now + delay))]

\* _on_tab_press
QuipApplication_on_tab_press(s) ==
    LET s1 == on_tab_press(s, now)
    IN IF s1.ret = "start_timing"
       THEN root_after(s1, tab_hold_threshold, "check_tab_hold")
       ELSE s1

\* _on_tab_release that processes every release at once
QuipApplication_on_tab_release_immediate(s) ==
    LET s1 == on_tab_release(s, now)
    IN IF s1.ret = "process_release"
       THEN LET s2 == process_immediate_tab_release(s1, now)
                s3 == IF s2.ret = "insert_tab"
                      THEN Call(s2, "insert_text") ELSE s2
            IN [s3 EXCEPT !.imm = s2.ret, !.ret = s1.ret]
       ELSE s1

\* _on_tab_release
QuipApplication_on_tab_release(s) ==
    LET s1 == on_tab_release(s, now)
    IN IF s1.ret = "process_release"
       THEN IF s1.vh.recording_mode
            THEN root_after(s1, release_debounce_time,
                            "check_tab_release_final")
            ELSE LET s2 == process_immediate_tab_release(s1, now)
                     s3 == IF s2.ret = "insert_tab"
                           THEN Call(s2, "insert_text") ELSE s2
                 IN [s3 EXCEPT !.imm = s2.ret, !.ret = s1.ret]
       ELSE s1

\* _check_tab_release_final that starts the tail and schedules no tail timer
QuipApplication_check_tab_release_final_no_timer(s) ==
    process_tab_release_after_debounce(s)

\* _check_tab_release_final
QuipApplication_check_tab_release_final(s) ==
    LET s1 == process_tab_release_after_debounce(s)
    IN IF s1.vh.recording_tail_active
       THEN root_after(s1, recording_tail_time, "stop_recording_tail")
       ELSE s1

----------------------------------------------------------------------------
(* The frame of a handler started in the current state, and what a step    *)
(* leaves behind for observation.                                          *)

Frame == [vh |-> vh, rec |-> rec, ts |-> ts, timers |-> timers,
          cb |-> <<>>, ret |-> "None", imm |-> "none", audio |-> 0,
          starts |-> 0]

Obs(op, s, tm) ==
    [op |-> op, action |-> s.ret, imm |-> s.imm, cb |-> s.cb,
     was_pressed |-> vh.tab_physically_pressed,
     was_recording |-> vh.recording_mode,
     was_tail |-> vh.recording_tail_active,
     was_window |-> InDebounceWindow(Frame, now),
     timer |-> tm]

Commit(s) ==
    /\ vh' = s.vh
    /\ rec' = s.rec
    /\ ts' = s.ts

\* a background thread's step, invoking the callbacks cbs
Background(op, cbs) ==
    obs' = [op |-> op, action |-> "None", imm |-> "none", cb |-> cbs,
            was_pressed |-> FALSE, was_recording |-> FALSE,
            was_tail |-> FALSE, was_window |-> FALSE, timer |-> NoTimer]

(* History of the current physical press span (from a press outside the    *)
(* debounce window on), kept for the properties:                           *)
(*   press_time  when the key last went from released to pressed           *)
(*   starts      how often recording_mode went from false to true (0,1,2+) *)
(*   released    the key has been released since the span's first press    *)
(*   held        the span's own hold check fired with the key never        *)
(*               released since the span's first press                     *)
(*   bounce      "released": the key was released in Recording (recording, *)
(*               no tail); "repressed": and pressed again within the       *)
(*               debounce window of that release                           *)
(*   broken      since that release the tail was active, its callback      *)
(*               fired, or recording_mode was false                        *)
(*   engaged     while the key was down in its last physical press (from   *)
(*               the key going down to its release), check_tab_hold set    *)
(*               tab_consumed_as_hold, or tab_consumed_as_hold or          *)
(*               recording_mode was true                                   *)
NewSpan == [press_time |-> now, starts |-> 0, released |-> FALSE,
            held |-> FALSE, bounce |-> "none", broken |-> FALSE,
            engaged |-> FALSE]

Engaged(sp, s) ==
    [sp EXCEPT !.engaged =
        IF s.vh.tab_physically_pressed
        THEN \/ vh.tab_physically_pressed /\ span.engaged
             \/ s.vh.recording_mode
             \/ s.vh.tab_consumed_as_hold
             \/ s.starts > 0
        ELSE span.engaged]

Watch(sp, s) ==
    IF sp.bounce = "none" THEN sp
    ELSE [sp EXCEPT !.broken = @ \/ s.vh.recording_tail_active
                                 \/ ~s.vh.recording_mode
                                 \/ Invoked(s.cb, "on_recording_tail_start")]

SpanOnPress(sp, s) ==
    IF s.ret = "start_timing" THEN NewSpan
    ELSE IF vh.tab_physically_pressed THEN Watch(sp, s)
    ELSE LET sp1 == [sp EXCEPT !.press_time = now]
         IN IF sp.bounce = "released" /\ s.ret = "continue_hold"
            THEN [sp1 EXCEPT !.bounce = "repressed"]
            ELSE Watch(sp1, s)

SpanOnRelease(sp, s) ==
    IF s.ret # "process_release" THEN Watch(sp, s)
    ELSE IF s.vh.recording_mode /\ ~s.vh.recording_tail_active
         THEN [sp EXCEPT !.released = TRUE, !.bounce = "released",
                         !.broken = FALSE]
         ELSE [sp EXCEPT !.released = TRUE, !.bounce = "none",
                         !.broken = FALSE]

SpanOnHoldCheck(sp, s) ==
    LET own == vh.tab_press_time # NoTime
               /\ now - vh.tab_press_time = tab_hold_threshold
    IN Watch([sp EXCEPT !.starts = Min(2, @ + s.starts),
                        !.held = @ \/ (own /\ vh.tab_physically_pressed
                                           /\ ~sp.released)], s)

----------------------------------------------------------------------------
(* State after QuipApplication.__init__: the VoiceHandler is constructed   *)
(* (its transcription loader thread started), and the recorder's           *)
(* background loading is scheduled.                                        *)

NewVoiceHandler ==
    [tab_press_time |-> NoTime,
     tab_release_time |-> NoTime,
     tab_physically_pressed |-> FALSE,
     tab_consumed_as_hold |-> FALSE,
     recording_mode |-> FALSE,
     recording_tail_active |-> FALSE,
     voice_recorder |-> FALSE,
     voice_recorder_loading |-> FALSE,
     voice_recorder_failed |-> FALSE,
     transcription_service |-> FALSE,
     transcription_loading |-> TRUE,
     transcription_failed |-> FALSE]

NewTranscriptionService ==
    [engine |-> "vosk", is_initialized |-> FALSE, initialization_thread |-> "none",
     jobs |-> 0]

\* the engines create_transcription_service knows
Engines == {"vosk", "mock"}

InitThreads == 1..MaxInitThreads

TranscribeThreads == 1..MaxTranscribeThreads

\* the threads that call into one service: the thread that created it and
\* calls initialize_async (the handler's loader thread), and a client of
\* the service
Callers == {"loader", "client"}

\* the threads around one TranscriptionService:
\*   callers            where each client thread stands in the public method
\*                      op it is executing
\*   initialize_engine  where each _initialize_engine thread stands, and the
\*                      engine whose initialize() it is executing
\*   current            the thread self.initialization_thread refers to, 0
\*                      once that thread has ended
\*   succeeded          the engines whose initialize() has returned true
\*   set_engine_returned, invoked   whether a set_engine call has returned
\*                      since the engine was installed, and whether the
\*                      installed engine's initialize() has been invoked
\*   transcribe         where each _transcribe_audio thread stands
NewServiceThreads ==
    [callers |-> [c \in Callers |-> [pc |-> "idle", op |-> "none"]],
     initialize_engine |-> [k \in InitThreads |-> [pc |-> "none", engine |-> "none"]],
     current |-> 0,
     set_engine_returned |-> FALSE,
     invoked |-> FALSE,
     succeeded |-> {},
     transcribe |-> [k \in TranscribeThreads |-> "none"]]

\* the threads once the VoiceHandler is constructed
NewThreads ==
    [load_transcription |-> "running", load_voice_recorder |-> "none",
     ui |-> "idle", entry_loading |-> FALSE,
     service |-> NewServiceThreads,
     recorders |-> 0,
     log |-> <<>>]

NewObs ==
    [op |-> "init", action |-> "None", imm |-> "none", cb |-> <<>>,
     was_pressed |-> FALSE, was_recording |-> FALSE,
     was_tail |-> FALSE, was_window |-> FALSE, timer |-> NoTimer]

InitObjects ==
    /\ vh = NewVoiceHandler
    /\ rec = NewRecorder
    /\ ts = NewTranscriptionService
    /\ th = NewThreads
    /\ obs = NewObs
    /\ span = [NewSpan EXCEPT !.press_time = NoTime]

Init ==
    /\ InitObjects
    /\ timers = <<Timer("start_voice_recorder_background_loading",
                        now + recorder_load_delay)>>

----------------------------------------------------------------------------
(* The UI thread: key events and timers *)

TimerDue(kind) ==
    /\ timers # <<>>
    /\ Head(timers).kind = kind
    /\ Head(timers).due <= now

MarkRepressed(q) == [i \in 1..Len(q) |-> [q[i] EXCEPT !.rp = TRUE]]

\* <KeyPress-Tab>
OnTabPress ==
    /\ LET s == QuipApplication_on_tab_press(Frame)
       IN /\ Len(s.timers) <= MaxTimers
          /\ Commit(s)
          /\ timers' = IF vh.tab_physically_pressed THEN s.timers
                       ELSE MarkRepressed(s.timers)
          /\ obs' = Obs("on_tab_press", s, NoTimer)
          /\ span' = Engaged(SpanOnPress(span, s), s)
    /\ UNCHANGED th

\* <KeyRelease-Tab>
OnTabRelease ==
    /\ LET s == QuipApplication_on_tab_release(Frame)
       IN /\ Len(s.timers) <= MaxTimers
          /\ Commit(s)
          /\ timers' = s.timers
          /\ obs' = Obs("on_tab_release", s, NoTimer)
          /\ span' = Engaged(SpanOnRelease(span, s), s)
    /\ UNCHANGED th

\* the hold-check timer fires
CheckTabHold ==
    /\ TimerDue("check_tab_hold")
    /\ \E ctor_ok, thread_ok \in BOOLEAN :
         LET s == check_tab_hold([Frame EXCEPT !.timers = Tail(timers)],
                                 ctor_ok, thread_ok)
         IN /\ s.ts.jobs <= MaxJobs
            /\ Commit(s)
            /\ timers' = s.timers
            /\ obs' = Obs("check_tab_hold", s, Head(timers))
            /\ span' = Engaged(SpanOnHoldCheck(span, s), s)
    /\ UNCHANGED th

\* the debounce timer fires
CheckTabReleaseFinal ==
    /\ TimerDue("check_tab_release_final")
    /\ LET s == QuipApplication_check_tab_release_final(
                    [Frame EXCEPT !.timers = Tail(timers)])
       IN /\ Commit(s)
          /\ timers' = s.timers
          /\ obs' = Obs("check_tab_release_final", s, Head(timers))
          /\ span' = Engaged(Watch(span, s), s)
    /\ UNCHANGED th

\* the tail timer fires
StopRecordingTail ==
    /\ TimerDue("stop_recording_tail")
    /\ LET s == stop_recording_tail([Frame EXCEPT !.timers = Tail(timers)])
       IN /\ s.ts.jobs <= MaxJobs
          /\ Commit(s)
          /\ timers' = s.timers
          /\ obs' = Obs("stop_recording_tail", s, Head(timers))
          /\ span' = Engaged(Watch(span, s), s)
    /\ UNCHANGED th

\* start_voice_recorder_background_loading, up to the thread's start
start_voice_recorder_background_loading(h) ==
    IF h.voice_recorder \/ h.voice_recorder_loading \/ h.voice_recorder_failed
    THEN h
    ELSE [h EXCEPT !.voice_recorder_loading = TRUE]

\* the timer of _finalize_setup fires
StartVoiceRecorderBackgroundLoading ==
    /\ TimerDue("start_voice_recorder_background_loading")
    /\ timers' = Tail(timers)
    /\ vh' = start_voice_recorder_background_loading(vh)
    /\ th' = IF vh' # vh THEN [th EXCEPT !.load_voice_recorder = "running"]
             ELSE th
    /\ obs' = Obs("start_voice_recorder_background_loading", Frame,
                  Head(timers))
    /\ UNCHANGED <<rec, ts, span>>

\* time passes by one tick; a due timer fires before the tick ends
Tick ==
    /\ IF timers = <<>> THEN TRUE ELSE Head(timers).due > now
    /\ timers' = [i \in 1..Len(timers) |-> [timers[i] EXCEPT !.due = @ - 1]]
    /\ vh' = [vh EXCEPT !.tab_press_time = Earlier(@),
                        !.tab_release_time = Earlier(@)]
    /\ span' = [span EXCEPT !.press_time = Earlier(@)]
    /\ Background("tick", <<>>)
    /\ UNCHANGED <<rec, ts, th>>

----------------------------------------------------------------------------
(* Background threads.  Each loader thread runs its body in one step.      *)

\* load_voice_recorder: ctor_ok is whether VoiceRecorder() can be imported
\* and constructed
LoadVoiceRecorder ==
    /\ th.load_voice_recorder = "running"
    /\ \E ctor_ok \in BOOLEAN :
         IF ctor_ok
         THEN /\ vh' = [vh EXCEPT !.voice_recorder = TRUE,
                                  !.voice_recorder_loading = FALSE]
              /\ rec' = NewRecorder
         ELSE /\ vh' = [vh EXCEPT !.voice_recorder_loading = FALSE,
                                  !.voice_recorder_failed = TRUE]
              /\ rec' = rec
    /\ th' = [th EXCEPT !.load_voice_recorder = "done"]
    /\ Background("load_voice_recorder", <<>>)
    /\ UNCHANGED <<timers, ts, span>>

\* load_transcription: ok is whether the service is created and its
\* initialization thread started
LoadTranscription ==
    /\ th.load_transcription = "running"
    /\ \E ok \in BOOLEAN :
         IF ok
         THEN /\ ts' = [ts EXCEPT !.initialization_thread = "alive"]
              /\ vh' = [vh EXCEPT !.transcription_service = TRUE,
                                  !.transcription_loading = FALSE]
         ELSE /\ ts' = ts
              /\ vh' = [vh EXCEPT !.transcription_loading = FALSE,
                                  !.transcription_failed = TRUE]
    /\ th' = [th EXCEPT !.load_transcription = "done"]
    /\ Background("load_transcription", <<>>)
    /\ UNCHANGED <<timers, rec, span>>

\* _initialize_engine: ok is what engine.initialize() returns
InitializeEngine ==
    /\ ts.initialization_thread = "alive"
    /\ \E ok \in BOOLEAN :
         ts' = [ts EXCEPT !.is_initialized = ok,
                          !.initialization_thread = "dead"]
    /\ Background("initialize_engine", <<>>)
    /\ UNCHANGED <<timers, vh, rec, th, span>>

\* _transcribe_audio without its except branch's callback: a failure of the
\* engine is reported as an empty result
transcribe_audio_swallows(outcome) ==
    <<"service.on_transcription_start", "on_transcription_complete">>

\* _transcribe_audio: the callbacks it invokes, in order.  The service's
\* callbacks are the handler's internal ones, of which the start one only
\* prints and the other two forward to the UI's callback.  outcome is what
\* engine.transcribe() and the forwarded callbacks do.
\* on_transcription_complete is called inside the try block, so its
\* exception reaches the except branch as the engine's does;
\* on_transcription_error is called in the except branch, so its exception
\* leaves the thread's function and reaches threading.excepthook
transcribe_audio(outcome) ==
    <<"service.on_transcription_start">> \o
    CASE outcome = "complete" -> <<"on_transcription_complete">>
      [] outcome = "engine_raises" -> <<"on_transcription_error:engine">>
      [] outcome = "complete_raises" ->
             <<"on_transcription_complete", "on_transcription_error:callback">>
      [] outcome = "callbacks_raise" ->
             <<"on_transcription_complete", "on_transcription_error:callback",
               "threading.excepthook">>

TranscribeOutcomes ==
    {"complete", "engine_raises", "complete_raises", "callbacks_raise"}

TranscribeAudio ==
    /\ ts.jobs > 0
    /\ ts' = [ts EXCEPT !.jobs = @ - 1]
    /\ \E outcome \in TranscribeOutcomes :
         obs' = [NewObs EXCEPT !.op = "transcribe_audio",
                               !.action = outcome,
                               !.cb = transcribe_audio(outcome)]
    /\ UNCHANGED <<timers, vh, rec, th, span>>

\* _record_audio: the stream's callback appends a chunk
AudioCallback ==
    /\ rec.recording_thread = "alive"
    /\ rec.is_recording
    /\ rec.audio_data < MaxChunks
    /\ rec' = [rec EXCEPT !.audio_data = @ + 1]
    /\ Background("audio_callback", <<>>)
    /\ UNCHANGED <<timers, vh, ts, th, span>>

\* _record_audio: the input stream raises
RecordAudioError ==
    /\ rec.recording_thread = "alive"
    /\ rec.is_recording
    /\ rec' = [rec EXCEPT !.is_recording = FALSE,
                          !.recording_thread = "dead"]
    /\ Background("record_audio", <<>>)
    /\ UNCHANGED <<timers, vh, ts, th, span>>

----------------------------------------------------------------------------
(* The application: the Tk event loop and the background threads *)

Next ==
    \/ OnTabPress
    \/ OnTabRelease
    \/ CheckTabHold
    \/ CheckTabReleaseFinal
    \/ StopRecordingTail
    \/ StartVoiceRecorderBackgroundLoading
    \/ Tick
    \/ LoadVoiceRecorder
    \/ LoadTranscription
    \/ InitializeEngine
    \/ TranscribeAudio
    \/ AudioCallback
    \/ RecordAudioError

Spec == Init /\ [][Next]_vars

\* The Tk main loop runs the callback of a due timer (one at a time, the
\* head of the queue), time passes, and every started thread runs.
TimerFires ==
    \/ CheckTabHold
    \/ CheckTabReleaseFinal
    \/ StopRecordingTail
    \/ StartVoiceRecorderBackgroundLoading

SpecFair ==
    /\ Spec
    /\ WF_vars(TimerFires)
    /\ WF_vars(Tick)
    /\ WF_vars(LoadVoiceRecorder)
    /\ WF_vars(LoadTranscription)
    /\ WF_vars(InitializeEngine)
    /\ WF_vars(TranscribeAudio)

TypeOK ==
    /\ vh.tab_press_time \in {NoTime} \cup (Oldest..now)
    /\ vh.tab_release_time \in {NoTime} \cup (Oldest..now)
    /\ rec.audio_data \in 0..MaxChunks
    /\ ts.jobs \in 0..MaxJobs
    /\ Len(timers) <= MaxTimers
    /\ span.starts \in 0..2

----------------------------------------------------------------------------
(* The VoiceHandler on its own: a client calls its public methods in any   *)
(* order, as the unit tests of tests/test_voice_handler.py do, while time  *)
(* passes and the background threads run.  No timer is pending.            *)

\* the step of a call that ran on the frame s
Called(op, s) ==
    /\ s.ts.jobs <= MaxJobs
    /\ Commit(s)
    /\ obs' = Obs(op, s, NoTimer)
    /\ UNCHANGED <<timers, th, span>>

CallOnTabPress == Called("on_tab_press", on_tab_press(Frame, now))

CallOnTabRelease == Called("on_tab_release", on_tab_release(Frame, now))

CallCheckTabHold ==
    \E ctor_ok, thread_ok \in BOOLEAN :
        Called("check_tab_hold", check_tab_hold(Frame, ctor_ok, thread_ok))

CallProcessTabReleaseAfterDebounce ==
    Called("process_tab_release_after_debounce",
           process_tab_release_after_debounce(Frame))

CallStopRecordingTail ==
    Called("stop_recording_tail", stop_recording_tail(Frame))

CallProcessImmediateTabRelease ==
    Called("process_immediate_tab_release",
           process_immediate_tab_release(Frame, now))

CallStartVoiceRecording ==
    \E ctor_ok, thread_ok \in BOOLEAN :
        Called("start_voice_recording",
               start_voice_recording(Frame, ctor_ok, thread_ok))

CallStopVoiceRecording ==
    Called("stop_voice_recording", stop_voice_recording(Frame))

CallStartVoiceRecorderBackgroundLoading ==
    /\ vh' = start_voice_recorder_background_loading(vh)
    /\ th' = IF vh' # vh THEN [th EXCEPT !.load_voice_recorder = "running"]
             ELSE th
    /\ obs' = Obs("start_voice_recorder_background_loading", Frame, NoTimer)
    /\ UNCHANGED <<timers, rec, ts, span>>

InitCalls ==
    /\ InitObjects
    /\ timers = <<>>

NextCalls ==
    \/ CallOnTabPress
    \/ CallOnTabRelease
    \/ CallCheckTabHold
    \/ CallProcessTabReleaseAfterDebounce
    \/ CallStopRecordingTail
    \/ CallProcessImmediateTabRelease
    \/ CallStartVoiceRecording
    \/ CallStopVoiceRecording
    \/ CallStartVoiceRecorderBackgroundLoading
    \/ Tick
    \/ LoadVoiceRecorder
    \/ LoadTranscription
    \/ InitializeEngine
    \/ TranscribeAudio
    \/ AudioCallback
    \/ RecordAudioError

SpecCalls == InitCalls /\ [][NextCalls]_vars

----------------------------------------------------------------------------
(* The handler against its transcription loader thread, statement by       *)
(* statement.  load_transcription writes transcription_service,            *)
(* transcription_loading and transcription_failed one after the other, and *)
(* stop_voice_recording reads transcription_service and then               *)
(* transcription_loading; the other thread may run in between.  th.ui is   *)
(* where the UI thread stands inside stop_voice_recording, and             *)
(* th.entry_loading whether transcription_loading was true when the call   *)
(* in progress was entered.                                                *)

UiIdle == th.ui = "idle"

\* stop_voice_recording up to the test of self.transcription_service
\* (line 390); ret is "test_loading" when the service was found missing
stop_voice_recording_to_service_test(s) ==
    IF ~s.vh.recording_mode THEN Ret(s, "None")
    ELSE
      LET s1 == [s EXCEPT !.vh.recording_mode = FALSE]
          s2 == IF s1.vh.voice_recorder THEN stop_recording(s1)
                ELSE [s1 EXCEPT !.audio = 0]
      IN IF s2.audio > 0
         THEN IF s2.vh.transcription_service
              THEN Ret(transcribe_async(Call(s2, "on_transcription_start")),
                       "None")
              ELSE Ret(s2, "test_loading")
         ELSE Ret(Call(s2, "on_recording_stop"), "None")

\* stop_voice_recording from the test of self.transcription_loading on
\* (line 402)
stop_voice_recording_from_loading_test(s) ==
    IF s.vh.transcription_loading
    THEN Call(s, "on_transcription_error:loading")
    ELSE Call(s, "on_transcription_error:unavailable")

RaceStartVoiceRecording ==
    /\ UiIdle
    /\ CallStartVoiceRecording

RaceStartVoiceRecorderBackgroundLoading ==
    /\ UiIdle
    /\ CallStartVoiceRecorderBackgroundLoading

RaceStopVoiceRecordingBegin ==
    /\ UiIdle
    /\ vh.recording_mode
    /\ LET s == stop_voice_recording_to_service_test(Frame)
       IN /\ s.ts.jobs <= MaxJobs
          /\ Commit(s)
          /\ obs' = Obs("stop_voice_recording", s, NoTimer)
          /\ th' = IF s.ret = "test_loading"
                   THEN [th EXCEPT !.ui = "test_loading",
                                   !.entry_loading = vh.transcription_loading]
                   ELSE th
    /\ UNCHANGED <<timers, span>>

RaceStopVoiceRecordingEnd ==
    /\ th.ui = "test_loading"
    /\ LET s == stop_voice_recording_from_loading_test(Frame)
       IN /\ Commit(s)
          /\ obs' = Obs("stop_voice_recording", s, NoTimer)
    /\ th' = [th EXCEPT !.ui = "idle", !.entry_loading = FALSE]
    /\ UNCHANGED <<timers, span>>

\* load_transcription, lines 475-480: ok is whether the service is created
\* and its initialization thread started
LoadTranscriptionCreate ==
    /\ th.load_transcription = "running"
    /\ \E ok \in BOOLEAN :
         IF ok
         THEN /\ ts' = [ts EXCEPT !.initialization_thread = "alive"]
              /\ th' = [th EXCEPT !.load_transcription = "created"]
         ELSE /\ ts' = ts
              /\ th' = [th EXCEPT !.load_transcription = "raised"]
    /\ Background("load_transcription", <<>>)
    /\ UNCHANGED <<timers, vh, rec, span>>

\* line 493: self.transcription_service = transcription_service
LoadTranscriptionAssign ==
    /\ th.load_transcription = "created"
    /\ vh' = [vh EXCEPT !.transcription_service = TRUE]
    /\ th' = [th EXCEPT !.load_transcription = "assigned"]
    /\ Background("load_transcription", <<>>)
    /\ UNCHANGED <<timers, rec, ts, span>>

\* line 494: self.transcription_loading = False
LoadTranscriptionLoaded ==
    /\ th.load_transcription = "assigned"
    /\ vh' = [vh EXCEPT !.transcription_loading = FALSE]
    /\ th' = [th EXCEPT !.load_transcription = "done"]
    /\ Background("load_transcription", <<>>)
    /\ UNCHANGED <<timers, rec, ts, span>>

\* line 500: self.transcription_loading = False
LoadTranscriptionRaised ==
    /\ th.load_transcription = "raised"
    /\ vh' = [vh EXCEPT !.transcription_loading = FALSE]
    /\ th' = [th EXCEPT !.load_transcription = "failing"]
    /\ Background("load_transcription", <<>>)
    /\ UNCHANGED <<timers, rec, ts, span>>

\* line 501: self.transcription_failed = True
LoadTranscriptionFailed ==
    /\ th.load_transcription = "failing"
    /\ vh' = [vh EXCEPT !.transcription_failed = TRUE]
    /\ th' = [th EXCEPT !.load_transcription = "done"]
    /\ Background("load_transcription", <<>>)
    /\ UNCHANGED <<timers, rec, ts, span>>

\* VoiceHandler.__init__ returns: the constructor goes on after it has
\* started the loader thread (line 43), which runs meanwhile
VoiceHandlerConstructed ==
    /\ th.ui = "constructing"
    /\ th' = [th EXCEPT !.ui = "idle"]
    /\ obs' = Obs("__init__", Frame, NoTimer)
    /\ UNCHANGED <<timers, vh, rec, ts, span>>

\* the constructor has just started the loader thread
InitRace ==
    /\ vh = NewVoiceHandler
    /\ rec = NewRecorder
    /\ ts = NewTranscriptionService
    /\ th = [NewThreads EXCEPT !.ui = "constructing"]
    /\ obs = NewObs
    /\ span = [NewSpan EXCEPT !.press_time = NoTime]
    /\ timers = <<>>

NextRace ==
    \/ VoiceHandlerConstructed
    \/ RaceStartVoiceRecording
    \/ RaceStartVoiceRecorderBackgroundLoading
    \/ RaceStopVoiceRecordingBegin
    \/ RaceStopVoiceRecordingEnd
    \/ LoadTranscriptionCreate
    \/ LoadTranscriptionAssign
    \/ LoadTranscriptionLoaded
    \/ LoadTranscriptionRaised
    \/ LoadTranscriptionFailed
    \/ LoadVoiceRecorder
    \/ InitializeEngine
    \/ TranscribeAudio
    \/ AudioCallback
    \/ RecordAudioError

SpecRace == InitRace /\ [][NextRace]_vars

\* the loader thread, once started, runs to its end
LoadTranscriptionRuns ==
    \/ LoadTranscriptionCreate
    \/ LoadTranscriptionAssign
    \/ LoadTranscriptionLoaded
    \/ LoadTranscriptionRaised
    \/ LoadTranscriptionFailed

SpecRaceFair == SpecRace /\ WF_vars(LoadTranscriptionRuns)

----------------------------------------------------------------------------
(* The handler against its recorder loader thread, statement by statement.  *)
(* load_voice_recorder constructs the recorder and then writes             *)
(* voice_recorder and voice_recorder_loading one after the other (on       *)
(* failure voice_recorder_loading and voice_recorder_failed), and          *)
(* _ensure_voice_recorder_loaded, called by start_voice_recording on the UI *)
(* thread, reads voice_recorder and then voice_recorder_loading; the       *)
(* loader may run in between.  th.recorders counts the VoiceRecorder       *)
(* objects constructed so far.                                             *)

\* start_voice_recording up to _ensure_voice_recorder_loaded's test of
\* self.voice_recorder (line 82); ret is "test_recorder_loading" when no
\* recorder was found
start_voice_recording_to_recorder_test(s, thread_ok) ==
    IF s.vh.recording_mode THEN Ret(s, "True")
    ELSE
      LET s1 == Call([s EXCEPT !.vh.recording_mode = TRUE,
                               !.starts = @ + 1], "on_recording_start")
      IN IF ~s1.vh.voice_recorder
         THEN Ret(s1, "test_recorder_loading")
         ELSE LET s3 == Call(start_recording(s1, thread_ok),
                             "recorder.start_recording")
              IN IF s3.ret = "False"
                 THEN Ret(stop_voice_recording(s3), "False")
                 ELSE Ret(s3, "True")

\* start_voice_recording from _ensure_voice_recorder_loaded's test of
\* self.voice_recorder_loading (line 85) on
start_voice_recording_from_recorder_loading_test(s, ctor_ok, thread_ok) ==
    LET s2 == IF s.vh.voice_recorder_loading THEN Ret(s, "False")
              ELSE IF s.vh.voice_recorder_failed THEN Ret(s, "False")
              ELSE IF ctor_ok
                   THEN Ret([s EXCEPT !.vh.voice_recorder = TRUE,
                                      !.rec = NewRecorder], "True")
                   ELSE Ret([s EXCEPT !.vh.voice_recorder_failed = TRUE],
                            "False")
    IN IF s2.ret = "False"
       THEN Ret(stop_voice_recording(s2), "False")
       ELSE LET s3 == Call(start_recording(s2, thread_ok),
                           "recorder.start_recording")
            IN IF s3.ret = "False"
               THEN Ret(stop_voice_recording(s3), "False")
               ELSE Ret(s3, "True")

LoadStartVoiceRecordingBegin ==
    /\ UiIdle
    /\ \E thread_ok \in BOOLEAN :
         LET s == start_voice_recording_to_recorder_test(Frame, thread_ok)
         IN /\ s.ts.jobs <= MaxJobs
            /\ Commit(s)
            /\ obs' = Obs("start_voice_recording", s, NoTimer)
            /\ th' = IF s.ret = "test_recorder_loading"
                     THEN [th EXCEPT !.ui = "test_recorder_loading"]
                     ELSE th
    /\ UNCHANGED <<timers, span>>

LoadStartVoiceRecordingEnd ==
    /\ th.ui = "test_recorder_loading"
    /\ \E ctor_ok, thread_ok \in BOOLEAN :
         LET s == start_voice_recording_from_recorder_loading_test(
                      Frame, ctor_ok, thread_ok)
             constructed == ~vh.voice_recorder_loading
                            /\ ~vh.voice_recorder_failed /\ ctor_ok
         IN /\ s.ts.jobs <= MaxJobs
            /\ Commit(s)
            /\ obs' = Obs("start_voice_recording", s, NoTimer)
            /\ th' = [th EXCEPT !.ui = "idle",
                                !.recorders = IF constructed THEN @ + 1 ELSE @]
    /\ UNCHANGED <<timers, span>>

LoadStopVoiceRecording ==
    /\ UiIdle
    /\ CallStopVoiceRecording

LoadStartVoiceRecorderBackgroundLoading ==
    /\ UiIdle
    /\ CallStartVoiceRecorderBackgroundLoading

\* load_voice_recorder, lines 126-129: ctor_ok is whether VoiceRecorder()
\* can be imported and constructed
LoadVoiceRecorderCreate ==
    /\ th.load_voice_recorder = "running"
    /\ \E ctor_ok \in BOOLEAN :
         th' = IF ctor_ok
               THEN [th EXCEPT !.load_voice_recorder = "created",
                               !.recorders = @ + 1]
               ELSE [th EXCEPT !.load_voice_recorder = "raised"]
    /\ Background("load_voice_recorder", <<>>)
    /\ UNCHANGED <<timers, vh, rec, ts, span>>

\* line 135: self.voice_recorder = voice_recorder
LoadVoiceRecorderAssign ==
    /\ th.load_voice_recorder = "created"
    /\ vh' = [vh EXCEPT !.voice_recorder = TRUE]
    /\ rec' = NewRecorder
    /\ th' = [th EXCEPT !.load_voice_recorder = "assigned"]
    /\ Background("load_voice_recorder", <<>>)
    /\ UNCHANGED <<timers, ts, span>>

\* line 136: self.voice_recorder_loading = False
LoadVoiceRecorderLoaded ==
    /\ th.load_voice_recorder = "assigned"
    /\ vh' = [vh EXCEPT !.voice_recorder_loading = FALSE]
    /\ th' = [th EXCEPT !.load_voice_recorder = "done"]
    /\ Background("load_voice_recorder", <<>>)
    /\ UNCHANGED <<timers, rec, ts, span>>

\* line 142: self.voice_recorder_loading = False
LoadVoiceRecorderRaised ==
    /\ th.load_voice_recorder = "raised"
    /\ vh' = [vh EXCEPT !.voice_recorder_loading = FALSE]
    /\ th' = [th EXCEPT !.load_voice_recorder = "failing"]
    /\ Background("load_voice_recorder", <<>>)
    /\ UNCHANGED <<timers, rec, ts, span>>

\* line 143: self.voice_recorder_failed = True
LoadVoiceRecorderFailed ==
    /\ th.load_voice_recorder = "failing"
    /\ vh' = [vh EXCEPT !.voice_recorder_failed = TRUE]
    /\ th' = [th EXCEPT !.load_voice_recorder = "done"]
    /\ Background("load_voice_recorder", <<>>)
    /\ UNCHANGED <<timers, rec, ts, span>>

InitLoad ==
    /\ InitObjects
    /\ timers = <<>>

NextLoad ==
    \/ LoadStartVoiceRecordingBegin
    \/ LoadStartVoiceRecordingEnd
    \/ LoadStopVoiceRecording
    \/ LoadStartVoiceRecorderBackgroundLoading
    \/ LoadVoiceRecorderCreate
    \/ LoadVoiceRecorderAssign
    \/ LoadVoiceRecorderLoaded
    \/ LoadVoiceRecorderRaised
    \/ LoadVoiceRecorderFailed
    \/ LoadTranscription
    \/ InitializeEngine
    \/ TranscribeAudio
    \/ AudioCallback
    \/ RecordAudioError

SpecLoad == InitLoad /\ [][NextLoad]_vars

----------------------------------------------------------------------------

(* One push-to-talk gesture on the application: the transcription service *)
(* is loaded and its engine initialized, the recorder's background loading *)
(* is scheduled as _finalize_setup leaves it; the user presses Tab once    *)
(* and releases it once, at any times.  The engine is the mock engine,     *)
(* whose transcribe() returns, and the application's callbacks return.     *)
(* th.log is the sequence of callbacks invoked since the start.            *)

Logged(s) == [th EXCEPT !.log = @ \o s.cb]

\* <KeyPress-Tab>, once
GestureTabPress ==
    /\ span.press_time = NoTime
    /\ LET s == QuipApplication_on_tab_press(Frame)
       IN /\ Len(s.timers) <= MaxTimers
          /\ Commit(s)
          /\ timers' = MarkRepressed(s.timers)
          /\ obs' = Obs("on_tab_press", s, NoTimer)
          /\ span' = Engaged(SpanOnPress(span, s), s)
          /\ th' = Logged(s)

\* <KeyRelease-Tab>, once
GestureTabRelease ==
    /\ vh.tab_physically_pressed
    /\ LET s == QuipApplication_on_tab_release(Frame)
       IN /\ Len(s.timers) <= MaxTimers
          /\ Commit(s)
          /\ timers' = s.timers
          /\ obs' = Obs("on_tab_release", s, NoTimer)
          /\ span' = Engaged(SpanOnRelease(span, s), s)
          /\ th' = Logged(s)

\* the hold-check timer fires
GestureCheckTabHold ==
    /\ TimerDue("check_tab_hold")
    /\ \E ctor_ok, thread_ok \in BOOLEAN :
         LET s == check_tab_hold([Frame EXCEPT !.timers = Tail(timers)],
                                 ctor_ok, thread_ok)
         IN /\ s.ts.jobs <= MaxJobs
            /\ Commit(s)
            /\ timers' = s.timers
            /\ obs' = Obs("check_tab_hold", s, Head(timers))
            /\ span' = Engaged(SpanOnHoldCheck(span, s), s)
            /\ th' = Logged(s)

GestureCheckTabReleaseFinal ==
    /\ TimerDue("check_tab_release_final")
    /\ LET s == QuipApplication_check_tab_release_final(
                    [Frame EXCEPT !.timers = Tail(timers)])
       IN /\ Commit(s)
          /\ timers' = s.timers
          /\ obs' = Obs("check_tab_release_final", s, Head(timers))
          /\ span' = Engaged(Watch(span, s), s)
          /\ th' = Logged(s)

GestureStopRecordingTail ==
    /\ TimerDue("stop_recording_tail")
    /\ LET s == stop_recording_tail([Frame EXCEPT !.timers = Tail(timers)])
       IN /\ s.ts.jobs <= MaxJobs
          /\ Commit(s)
          /\ timers' = s.timers
          /\ obs' = Obs("stop_recording_tail", s, Head(timers))
          /\ span' = Engaged(Watch(span, s), s)
          /\ th' = Logged(s)

\* _transcribe_audio with the mock engine
GestureTranscribeAudio ==
    /\ ts.jobs > 0
    /\ ts' = [ts EXCEPT !.jobs = @ - 1]
    /\ Background("transcribe_audio", transcribe_audio("complete"))
    /\ th' = [th EXCEPT !.log = @ \o transcribe_audio("complete")]
    /\ UNCHANGED <<timers, vh, rec, span>>

InitGesture ==
    /\ vh = [NewVoiceHandler EXCEPT !.transcription_service = TRUE,
                                    !.transcription_loading = FALSE]
    /\ rec = NewRecorder
    /\ ts = [NewTranscriptionService EXCEPT !.is_initialized = TRUE,
                                            !.initialization_thread = "dead"]
    /\ th = [NewThreads EXCEPT !.load_transcription = "done"]
    /\ obs = NewObs
    /\ span = [NewSpan EXCEPT !.press_time = NoTime]
    /\ timers = <<Timer("start_voice_recorder_background_loading",
                        now + recorder_load_delay)>>

NextGesture ==
    \/ GestureTabPress
    \/ GestureTabRelease
    \/ GestureCheckTabHold
    \/ GestureCheckTabReleaseFinal
    \/ GestureStopRecordingTail
    \/ GestureTranscribeAudio
    \/ StartVoiceRecorderBackgroundLoading
    \/ LoadVoiceRecorder
    \/ Tick
    \/ AudioCallback
    \/ RecordAudioError

SpecGesture == InitGesture /\ [][NextGesture]_vars

----------------------------------------------------------------------------

(* The TranscriptionService on its own: client threads call                *)
(* initialize_async, set_engine and transcribe_async at any time while the *)
(* _initialize_engine and _transcribe_audio threads run.  The service has   *)
(* no lock; initialize_async is taken statement by statement (the test of   *)
(* the running thread, then the creation and start of a new one), and      *)
(* _initialize_engine in two steps (the call of engine.initialize(), then   *)
(* the assignment of its result).                                          *)

\* a step of a client thread inside a public method of the service: it
\* invokes no callback
ServiceStep(op, action) ==
    obs' = [NewObs EXCEPT !.op = "service"]

\* a public method returns to the thread c; the loader thread makes its one
\* call (initialize_async, voice_handler.py line 480) and is done
Returned(t, c) ==
    [t EXCEPT !.service.callers[c] =
                  [pc |-> IF c = "loader" THEN "done" ELSE "idle",
                   op |-> "none"],
              !.service.set_engine_returned =
                  @ \/ t.service.callers[c].op = "set_engine"]

\* a client thread enters initialize_async
CallInitializeAsync(c) ==
    /\ th.service.callers[c].pc = "idle"
    /\ th' = [th EXCEPT !.service.callers[c] =
                            [pc |-> "test", op |-> "initialize_async"]]
    /\ ServiceStep("initialize_async", "called")
    /\ UNCHANGED <<timers, vh, rec, ts, span>>

\* set_engine up to its call of initialize_async
SetEngine(c, engine) ==
    /\ c = "client"
    /\ th.service.callers[c].pc = "idle"
    /\ ts' = [ts EXCEPT !.engine = engine, !.is_initialized = FALSE]
    /\ th' = [th EXCEPT !.service.callers[c] =
                            [pc |-> "test", op |-> "set_engine"],
                        !.service.set_engine_returned = FALSE,
                        !.service.invoked = FALSE]
    /\ ServiceStep("set_engine", "called")
    /\ UNCHANGED <<timers, vh, rec, span>>

\* initialize_async: the test of initialization_thread.is_alive()
InitializeAsyncTest(c) ==
    /\ th.service.callers[c].pc = "test"
    /\ IF ts.initialization_thread = "alive"
       THEN /\ th' = Returned(th, c)
            /\ ServiceStep(th.service.callers[c].op, "returned")
       ELSE /\ th' = [th EXCEPT !.service.callers[c].pc = "start"]
            /\ ServiceStep(th.service.callers[c].op, "passed")
    /\ UNCHANGED <<timers, vh, rec, ts, span>>

\* initialize_async: a new thread is created, assigned and started
InitializeAsyncStart(c) ==
    /\ th.service.callers[c].pc = "start"
    /\ \E k \in InitThreads :
         /\ th.service.initialize_engine[k].pc = "none"
         /\ \A j \in 1..(k - 1) : th.service.initialize_engine[j].pc # "none"
         /\ th' = [Returned(th, c) EXCEPT
                       !.service.initialize_engine[k] =
                           [pc |-> "started", engine |-> "none"],
                       !.service.current = k]
    /\ ts' = [ts EXCEPT !.initialization_thread = "alive"]
    /\ ServiceStep(th.service.callers[c].op, "started")
    /\ UNCHANGED <<timers, vh, rec, span>>

\* _initialize_engine: self.engine is read and its initialize() entered
InitializeEngineBegin(k) ==
    /\ th.service.initialize_engine[k].pc = "started"
    /\ th' = [th EXCEPT !.service.initialize_engine[k] =
                            [pc |-> "initializing", engine |-> ts.engine],
                        !.service.invoked = TRUE]
    /\ Background("initialize_engine", <<>>)
    /\ UNCHANGED <<timers, vh, rec, ts, span>>

\* _initialize_engine: ok is what initialize() returns (false when it raises)
InitializeEngineEnd(k) ==
    /\ th.service.initialize_engine[k].pc = "initializing"
    /\ \E ok \in BOOLEAN :
         ts' = [ts EXCEPT !.is_initialized = ok,
                          !.initialization_thread =
                              IF th.service.current = k THEN "dead" ELSE @]
    /\ th' = [th EXCEPT !.service.initialize_engine[k] =
                            [pc |-> "none", engine |-> "none"],
                        !.service.current = IF @ = k THEN 0 ELSE @,
                        !.service.succeeded =
                            IF ts'.is_initialized
                            THEN @ \cup {th.service.initialize_engine[k].engine}
                            ELSE @]
    /\ Background("initialize_engine", <<>>)
    /\ UNCHANGED <<timers, vh, rec, span>>

CallTranscribeAsync ==
    Called("transcribe_async", transcribe_async(Frame))

InitService ==
    /\ InitObjects
    /\ timers = <<>>

NextService ==
    \/ \E c \in Callers : CallInitializeAsync(c)
    \/ \E c \in Callers, engine \in Engines : SetEngine(c, engine)
    \/ \E c \in Callers : InitializeAsyncTest(c)
    \/ \E c \in Callers : InitializeAsyncStart(c)
    \/ \E k \in InitThreads : InitializeEngineBegin(k)
    \/ \E k \in InitThreads : InitializeEngineEnd(k)
    \/ CallTranscribeAsync
    \/ TranscribeAudio

SpecService == InitService /\ [][NextService]_vars

\* every started thread and every call in progress keeps running
CallerRuns(c) == InitializeAsyncTest(c) \/ InitializeAsyncStart(c)

InitThreadRuns(k) == InitializeEngineBegin(k) \/ InitializeEngineEnd(k)

SpecServiceFair ==
    /\ SpecService
    /\ \A c \in Callers : WF_vars(CallerRuns(c))
    /\ \A k \in InitThreads : WF_vars(InitThreadRuns(k))
    /\ WF_vars(TranscribeAudio)

----------------------------------------------------------------------------
(* The transcription threads of one initialized TranscriptionService,      *)
(* statement by statement: transcribe_async starts a thread per request,   *)
(* and _transcribe_audio invokes on_transcription_start, executes          *)
(* engine.transcribe and invokes the callback of the outcome.              *)

TranscribeStep(op, k, cbs) ==
    obs' = [NewObs EXCEPT !.op = op, !.action = ToString(k), !.cb = cbs]

\* transcribe_async: threading.Thread(target=self._transcribe_audio).start()
TranscribeAsyncStartsThread(k) ==
    /\ th.service.transcribe[k] = "none"
    /\ LET s == transcribe_async(Frame)
       IN /\ s.ts.jobs = ts.jobs + 1
          /\ Commit(s)
          /\ obs' = [Obs("transcribe_async", s, NoTimer)
                        EXCEPT !.action = ToString(k)]
    /\ th' = [th EXCEPT !.service.transcribe[k] = "started"]
    /\ UNCHANGED <<timers, span>>

\* _transcribe_audio: on_transcription_start, then the thread calls
\* self.engine.transcribe
TranscribeAudioEntersEngine(k) ==
    /\ th.service.transcribe[k] = "started"
    /\ th' = [th EXCEPT !.service.transcribe[k] = "engine.transcribe"]
    /\ TranscribeStep("transcribe_audio_start", k,
                      <<"service.on_transcription_start">>)
    /\ UNCHANGED <<timers, vh, rec, ts, span>>

\* engine.transcribe returns the text or raises
TranscribeAudioLeavesEngine(k) ==
    /\ th.service.transcribe[k] = "engine.transcribe"
    /\ \E ok \in BOOLEAN :
         th' = [th EXCEPT !.service.transcribe[k] =
                              IF ok THEN "returned" ELSE "raised"]
    /\ TranscribeStep("engine_transcribe", k, <<>>)
    /\ UNCHANGED <<timers, vh, rec, ts, span>>

\* on_transcription_complete(text): the thread ends, or the callback raises
\* and the except branch of _transcribe_audio takes over
TranscribeAudioCompletes(k) ==
    /\ th.service.transcribe[k] = "returned"
    /\ \E callback_ok \in BOOLEAN :
         IF callback_ok
         THEN /\ th' = [th EXCEPT !.service.transcribe[k] = "none"]
              /\ ts' = [ts EXCEPT !.jobs = @ - 1]
         ELSE /\ th' = [th EXCEPT !.service.transcribe[k] = "raised"]
              /\ ts' = ts
    /\ TranscribeStep("transcribe_audio_complete", k,
                      <<"on_transcription_complete">>)
    /\ UNCHANGED <<timers, vh, rec, span>>

\* except: on_transcription_error(message), and the thread ends; an
\* exception of that callback leaves the thread uncaught
TranscribeAudioFails(k) ==
    /\ th.service.transcribe[k] = "raised"
    /\ th' = [th EXCEPT !.service.transcribe[k] = "none"]
    /\ ts' = [ts EXCEPT !.jobs = @ - 1]
    /\ \E callback_ok \in BOOLEAN :
         TranscribeStep("transcribe_audio_error", k,
                        IF callback_ok
                        THEN <<"on_transcription_error:engine">>
                        ELSE <<"on_transcription_error:engine",
                               "threading.excepthook">>)
    /\ UNCHANGED <<timers, vh, rec, span>>

InEngine == {k \in TranscribeThreads :
               th.service.transcribe[k] = "engine.transcribe"}

InitTranscribe ==
    /\ vh = NewVoiceHandler
    /\ rec = NewRecorder
    /\ ts = [NewTranscriptionService EXCEPT !.is_initialized = TRUE]
    /\ th = NewThreads
    /\ obs = NewObs
    /\ timers = <<>>
    /\ span = [NewSpan EXCEPT !.press_time = NoTime]

NextTranscribe ==
    \/ \E k \in TranscribeThreads : TranscribeAsyncStartsThread(k)
    \/ \E k \in TranscribeThreads : TranscribeAudioEntersEngine(k)
    \/ \E k \in TranscribeThreads : TranscribeAudioLeavesEngine(k)
    \/ \E k \in TranscribeThreads : TranscribeAudioCompletes(k)
    \/ \E k \in TranscribeThreads : TranscribeAudioFails(k)

SpecTranscribe == InitTranscribe /\ [][NextTranscribe]_vars

----------------------------------------------------------------------------

(* Properties *)

\* C1: a release that comes less than the hold threshold after the physical
\* press it ends, with tab_consumed_as_hold false, makes
\* process_immediate_tab_release return "insert_tab", and the step invokes
\* no recording or transcription callback.
C1_ShortTapInsertsTab ==
    (/\ obs.op = "on_tab_release"
     /\ obs.action = "process_release"
     /\ ~vh.tab_consumed_as_hold
     /\ now - span.press_time < tab_hold_threshold)
    => (obs.imm = "insert_tab" /\ obs.cb = <<"insert_text">>)

\* C2: within one physical press span recording_mode goes from false to true
\* at most once, and exactly once when the hold threshold elapsed with the
\* key still pressed.
C2_RecordingStartsOncePerSpan ==
    /\ span.starts <= 1
    /\ span.held => span.starts = 1

\* C3: a key released in Recording and pressed again within the debounce
\* window of that release never passes through the tail: since the release
\* recording_tail_active stayed false, on_recording_tail_start was not
\* invoked and recording_mode stayed true.
C3_BounceNeverEntersTail ==
    span.bounce = "repressed" => ~span.broken

\* C4: when the tail timer fires: if the key was not pressed again since the
\* timer was scheduled, recording_mode is false afterwards; if it was pressed
\* again before the timer fired, recording_tail_active is false and
\* recording_mode is true afterwards.
C4_TailTimerOutcome ==
    obs.op = "stop_recording_tail" =>
        IF obs.timer.rp
        THEN ~vh.recording_tail_active /\ vh.recording_mode
        ELSE ~vh.recording_mode

\* C5: in every reachable state recording_tail_active implies recording_mode
\* and not tab_physically_pressed.
C5_TailImpliesRecordingReleased ==
    vh.recording_tail_active =>
        (vh.recording_mode /\ ~vh.tab_physically_pressed)

\* C6: a physical press arriving while recording_tail_active is true cancels
\* the tail at that press and is not a new gesture: on_tab_press does not
\* return "start_timing".
C6_PressDuringTailContinues ==
    (/\ obs.op = "on_tab_press"
     /\ obs.was_tail
     /\ ~obs.was_pressed)
    => (~vh.recording_tail_active /\ obs.action # "start_timing")

\* C7: on_tab_press while tab_physically_pressed is already true returns
\* "ignore_repeat" and changes nothing: the handler's fields, the recorder,
\* the service and the pending timers stay as they are and no callback is
\* invoked.
C7_RepeatIsIgnored ==
    [][(obs'.op = "on_tab_press" /\ vh.tab_physically_pressed)
       => (/\ obs'.action = "ignore_repeat"
           /\ obs'.cb = <<>>
           /\ UNCHANGED <<vh, rec, ts, timers>>)]_vars

\* C7, as the code has it: on_tab_press while tab_physically_pressed is
\* already true returns "ignore_repeat", or "continue_hold" when it arrives
\* within the debounce window of the last release, and changes nothing
\* either way.
C7_RepeatIsNoOp ==
    [][(obs'.op = "on_tab_press" /\ vh.tab_physically_pressed)
       => (/\ obs'.action =
                IF obs'.was_window THEN "continue_hold" ELSE "ignore_repeat"
           /\ obs'.cb = <<>>
           /\ UNCHANGED <<vh, rec, ts, timers>>)]_vars

C7_Witness_RepeatInWindow ==
    /\ obs.op = "on_tab_press"
    /\ obs.was_pressed
    /\ obs.was_window
    /\ obs.action = "continue_hold"
    /\ vh.recording_mode


\* C8: a release arriving while recording_mode is true leaves the recording
\* running in that step: the application only schedules the debounce check.
\* recording_mode goes from true to false only in the tail-timer handler
\* stop_recording_tail, with the tail active.
C8_ReleaseRoutesThroughDebounce ==
    [][/\ (obs'.op = "on_tab_release" /\ vh.recording_mode)
          => (/\ vh'.recording_mode
              /\ rec' = rec
              /\ ts' = ts
              /\ obs'.cb = <<>>
              /\ timers' = IF obs'.action = "process_release"
                           THEN After(timers,
                                      Timer("check_tab_release_final",
                                            now + release_debounce_time))
                           ELSE timers)
       /\ (vh.recording_mode /\ ~vh'.recording_mode)
          => (obs'.op = "stop_recording_tail" /\ vh.recording_tail_active)
      ]_vars

C8_Witness_ReleaseWhileRecording ==
    /\ obs.op = "on_tab_release"
    /\ obs.action = "process_release"
    /\ obs.was_recording
    /\ vh.recording_mode
    /\ rec.is_recording
    /\ \E i \in 1..Len(timers) : timers[i].kind = "check_tab_release_final"

\* C9: when start_voice_recording is entered with recording_mode false and
\* cannot start the recorder (the recorder is still loading, failed to load,
\* or is not recording after the call), it returns False with recording_mode
\* false, on_recording_stop is invoked, no transcription callback is invoked
\* and transcribe_async is not called.
C9_FailedStartUnwinds ==
    [][(/\ \/ obs'.op = "start_voice_recording"
           \/ obs'.op = "check_tab_hold" /\ vh.tab_physically_pressed
        /\ ~vh.recording_mode
        /\ \/ vh.voice_recorder_loading
           \/ vh.voice_recorder_failed
           \/ ~rec'.is_recording)
       => (/\ obs'.action = "False"
           /\ ~vh'.recording_mode
           /\ Invoked(obs'.cb, "on_recording_stop")
           /\ ~Invoked(obs'.cb, "transcribe_async")
           /\ \A i \in 1..Len(obs'.cb) : ~IsTranscriptionCb(obs'.cb[i]))
      ]_vars

C9_Witness_StartRecordingFalse ==
    /\ obs.op = "start_voice_recording"
    /\ ~obs.was_recording
    /\ obs.action = "False"
    /\ Invoked(obs.cb, "recorder.start_recording")
    /\ vh.voice_recorder
    /\ vh.transcription_service

\* C10: start_voice_recording called while recording_mode is true returns
\* True and changes nothing: the handler, the recorder (start_recording is
\* not called, no capture thread is started) and the service stay as they
\* are, and no callback is invoked.
C10_StartWhileRecordingIsNoOp ==
    [][(obs'.op = "start_voice_recording" /\ vh.recording_mode)
       => (/\ obs'.action = "True"
           /\ obs'.cb = <<>>
           /\ UNCHANGED <<vh, rec, ts, timers>>)]_vars

C10_Witness_StartWhileRecording ==
    /\ obs.op = "start_voice_recording"
    /\ obs.was_recording
    /\ obs.action = "True"
    /\ rec.is_recording
    /\ rec.recording_thread = "alive"


\* C11: stop_voice_recording called while recording_mode is true, when the
\* recorder yields no audio (no recorder, a recorder that is not recording,
\* or one that captured no chunk), sets recording_mode false and invokes
\* on_recording_stop exactly once and nothing else: none of
\* on_transcription_start, on_transcription_error and transcribe_async.
C11_StopWithoutAudio ==
    [][(/\ obs'.op = "stop_voice_recording"
        /\ vh.recording_mode
        /\ \/ ~vh.voice_recorder
           \/ ~rec.is_recording
           \/ rec.audio_data = 0)
       => (/\ ~vh'.recording_mode
           /\ obs'.cb = <<"on_recording_stop">>
           /\ ts' = ts)]_vars

C11_Witness_StopWithoutAudio ==
    /\ obs.op = "stop_voice_recording"
    /\ obs.was_recording
    /\ obs.cb = <<"on_recording_stop">>
    /\ vh.voice_recorder
    /\ vh.transcription_service
    /\ rec.recording_thread = "dead"
    /\ rec.audio_data = 0


\* C12: a stop_voice_recording call entered with captured audio while the
\* transcription service is still loading (transcription_service not set,
\* transcription_loading true) ends with on_transcription_error invoked once
\* with the still-loading message and nothing else, and keeps nothing for
\* later: no transcription is pending, the handler and the recorder are
\* stopped.
C12_StopWhileServiceLoading ==
    [][(/\ th.ui = "test_loading"
        /\ th.entry_loading
        /\ th'.ui = "idle")
       => (/\ obs'.cb = <<"on_transcription_error:loading">>
           /\ ts' = ts
           /\ ~vh'.recording_mode
           /\ ~rec'.is_recording)]_vars

\* C13: whenever the transcription service is ready (transcription_service
\* is set, status "ready") its engine is initialized, and a step that
\* announces a transcription with on_transcription_start does not reject it
\* with the not-initialized error.
C13_ReadyMeansInitialized ==
    /\ get_transcription_status(vh) = "ready" => ts.is_initialized
    /\ Invoked(obs.cb, "on_transcription_start")
       => ~Invoked(obs.cb, "on_transcription_error:not_initialized")


\* C14: under every interleaving of the UI thread with the loader thread,
\* stop_voice_recording invokes on_transcription_error("Transcription service
\* unavailable") only if transcription_failed is true.
C14_UnavailableOnlyIfFailed ==
    Invoked(obs.cb, "on_transcription_error:unavailable")
        => vh.transcription_failed

\* C15: a stop_voice_recording call that captured non-empty audio gets
\* exactly one terminal notification, on_transcription_complete or
\* on_transcription_error: the call either reports one error itself and
\* starts nothing, or reports nothing and hands the audio to one
\* transcription thread, and that thread reports exactly one of the two.
StopWithAudio ==
    /\ vh.recording_mode /\ ~vh'.recording_mode
    /\ vh.voice_recorder /\ rec.is_recording /\ rec.audio_data > 0

C15_OneTerminalNotification ==
    [][/\ StopWithAudio
          => \/ Terminals(obs'.cb) = 1 /\ ts'.jobs = ts.jobs
             \/ Terminals(obs'.cb) = 0 /\ ts'.jobs = ts.jobs + 1
       /\ obs'.op = "transcribe_audio" => Terminals(obs'.cb) = 1]_vars

C17_CompleteXorError ==
    [][obs'.op = "transcribe_audio"
       => (Invoked(obs'.cb, "on_transcription_complete")
           # (\E i \in 1..Len(obs'.cb) :
                  IsTerminalCb(obs'.cb[i])
                  /\ obs'.cb[i] # "on_transcription_complete"))]_vars

\* C18: a transcription request gets exactly one invocation among the
\* service's three callbacks on_transcription_start,
\* on_transcription_complete and on_transcription_error: the request
\* refused for missing initialization, and the request run by a thread.
ServiceCallbacks(cbs) ==
    Count(cbs, "service.on_transcription_start") + Terminals(cbs)

C18_OneCallbackPerRequest ==
    [][/\ (obs'.op = "transcribe_async" /\ ~ts.is_initialized)
          => ServiceCallbacks(obs'.cb) = 1
       /\ obs'.op = "transcribe_audio"
          => ServiceCallbacks(obs'.cb) = 1]_vars

\* C19: whatever the number and timing of the initialize_async calls, at
\* most one _initialize_engine thread is executing engine.initialize() at
\* any time.
C19_OneInitializationInFlight ==
    Cardinality({k \in InitThreads :
                     th.service.initialize_engine[k].pc = "initializing"}) <= 1

\* C20: once set_engine(new_engine) has returned, new_engine.initialize()
\* is eventually invoked by an _initialize_engine thread (unless another
\* engine is installed first), also when an earlier initialization was
\* running during the call.
C20_SetEngineInitializes ==
    (th.service.set_engine_returned /\ ~th.service.invoked)
        ~> (th.service.invoked \/ ~th.service.set_engine_returned)

\* C21: whenever is_initialized is true, the service's current engine is
\* one whose initialize() has returned true, so that transcribe_async hands
\* the audio only to an initialized engine, also when set_engine is called
\* during an initialization.
C21_InitializedEngineIsCurrent ==
    ts.is_initialized => ts.engine \in th.service.succeeded

\* C22: the value of get_transcription_status only moves forward along
\* not_started, loading, then ready or failed: it never falls back to an
\* earlier stage, and ready and failed are final, whatever the loader
\* thread is doing.
StatusRank(status) ==
    CASE status = "not_started" -> 0
      [] status = "loading" -> 1
      [] OTHER -> 2

C22_StatusMovesForward ==
    [][LET before == get_transcription_status(vh)
           after == get_transcription_status(vh')
       IN  /\ StatusRank(after) >= StatusRank(before)
           /\ StatusRank(before) = 2 => after = before]_vars

\* C23: when the engine failed to initialize (its initialization thread has
\* ended and is_initialized is false), the transcription status is
\* "failed" and never "ready".
EngineFailed == ts.initialization_thread = "dead" /\ ~ts.is_initialized

C23_FailedEngineIsNotReady ==
    EngineFailed => /\ get_transcription_status(vh) # "ready"
                    /\ get_transcription_status(vh) = "failed"

\* C24: when the constructor of a VoiceHandler returns, transcription
\* loading has started (the status is not "not_started"), and when the
\* loader thread is scheduled fairly the status eventually is "ready" or
\* "failed" with transcription_loading false, for good.
TranscriptionLoadingOver ==
    /\ get_transcription_status(vh) \in {"ready", "failed"}
    /\ ~vh.transcription_loading

C24_LoadingStartsAndEnds ==
    /\ [][(th.ui = "constructing" /\ th'.ui = "idle")
          => get_transcription_status(vh') # "not_started"]_vars
    /\ <>[]TranscriptionLoadingOver

\* C25: over the lifetime of a VoiceHandler at most one VoiceRecorder is
\* constructed: the lazy load of _ensure_voice_recorder_loaded and the
\* background load never both create one.
C25_OneRecorderConstructed == th.recorders <= 1

\* C26: one gesture with the recorder available, the mock engine
\* initialized and non-empty audio (the recording started and no stop found
\* it without audio): press, hold until the hold check fires, release, no
\* press again.  The UI is notified of on_recording_start,
\* on_recording_tail_start, on_transcription_start and
\* on_transcription_complete, in that order and each once, and of nothing
\* else: at every moment what it has been told is a prefix of that
\* sequence, and the whole of it when the gesture is over.
IsUiNotification(name) ==
    name \in {"on_recording_start", "on_recording_stop",
              "on_recording_tail_start"} \/ IsTranscriptionCb(name)

UiLog == SelectSeq(th.log, IsUiNotification)

GestureNotifications ==
    <<"on_recording_start", "on_recording_tail_start",
      "on_transcription_start", "on_transcription_complete">>

GestureOver ==
    /\ span.released /\ timers = <<>> /\ ts.jobs = 0
    /\ ~vh.recording_mode /\ ~vh.tab_physically_pressed

C28_NoUncaughtFailure ==
    ~Invoked(obs.cb, "threading.excepthook")

\* C29: when VoiceRecorder.stop_recording returns the captured chunks, the
\* recorder's own buffer is empty afterwards, and no chunk is ever appended
\* to the buffer while is_recording is false.
C29_StopEmptiesBuffer ==
    [][/\ StopWithAudio => rec'.audio_data = 0
       /\ rec'.audio_data > rec.audio_data => rec.is_recording]_vars

\* C30: the release of a physical press during which the hold check fired
\* (tab_consumed_as_hold true) or recording_mode was true at any time never
\* yields "insert_tab" and inserts no tab, whether the recording started,
\* failed to start or is still running: process_immediate_tab_release
\* returns "already_handled", or the release takes the debounce path (the
\* recording runs, nothing is processed at once and
\* _check_tab_release_final is scheduled after release_debounce_time).
DebounceScheduled ==
    \E i \in 1..Len(timers) :
        /\ timers[i].kind = "check_tab_release_final"
        /\ timers[i].due = now + release_debounce_time

C30_EngagedPressNeverInsertsTab ==
    (/\ obs.op = "on_tab_release"
     /\ obs.action = "process_release"
     /\ span.engaged)
    => /\ ~Invoked(obs.cb, "insert_text")
       /\ \/ obs.imm = "already_handled"
          \/ obs.imm = "none" /\ vh.recording_mode /\ DebounceScheduled

\* a press whose hold check fired and whose recording failed to start has
\* been released before the threshold of its own press time
C30_Witness_FailedStartReleased ==
    /\ obs.op = "on_tab_release"
    /\ obs.action = "process_release"
    /\ span.engaged
    /\ obs.imm = "already_handled"
    /\ vh.tab_consumed_as_hold
    /\ ~vh.recording_mode
    /\ now - vh.tab_press_time < tab_hold_threshold

\* C31: check_tab_hold firing after the key was released, or while
\* recording_mode is already true, is a no-op: every flag of the handler
\* stays as it was, no callback is invoked, the recorder and the
\* transcription service are not called.
C31_StaleHoldCheckIsNoOp ==
    [][(/\ obs'.op = "check_tab_hold"
        /\ ~vh.tab_physically_pressed \/ vh.recording_mode)
       => (/\ vh' = vh
           /\ rec' = rec
           /\ ts' = ts
           /\ obs'.cb = <<>>
           /\ obs'.action = "None")]_vars

\* a hold check has fired with the key pressed and the recording running
C31_Witness_HoldCheckWhileRecording ==
    /\ obs.op = "check_tab_hold"
    /\ obs.was_pressed
    /\ obs.was_recording

\* C32: a recording is started only for a key that has been down without a
\* release for at least tab_hold_threshold since its most recent physical
\* press: a hold check scheduled by an earlier press never starts the
\* recording for a later, shorter press.
C32_RecordingStartsAfterFullHold ==
    (/\ obs.op = "check_tab_hold"
     /\ obs.action = "True"
     /\ ~obs.was_recording)
    => now - span.press_time >= tab_hold_threshold

\* C33: a key that is pressed while no recording is active, with the
\* recorder available, and then stays pressed leads to recording_mode true
\* (or at least to the hold check that tries to start the recording and sets
\* tab_consumed_as_hold), whatever presses and releases came before.
C33_HeldKeyStartsRecording ==
    (/\ vh.tab_physically_pressed
     /\ ~vh.recording_mode
     /\ ~vh.tab_consumed_as_hold
     /\ vh.voice_recorder)
    ~> (\/ vh.recording_mode
        \/ vh.tab_consumed_as_hold
        \/ ~vh.tab_physically_pressed)


\* C34: on_recording_start is invoked only while recording_mode is true.
\* check_tab_hold invokes it from start_voice_recording, right after that set
\* recording_mode (true at the call, also when the start then fails); every
\* other handler that invokes it leaves recording_mode as it found it, so
\* there recording_mode is true before and after the step.
C34_StartNotifiedOnlyWhileRecording ==
    [][Invoked(obs'.cb, "on_recording_start")
       => \/ obs'.op = "check_tab_hold"
          \/ vh.recording_mode /\ vh'.recording_mode]_vars

\* C35: a recording that runs with the key released, if the key is never
\* pressed again, is eventually stopped: recording_mode and
\* recording_tail_active become false, whatever presses, releases and timers
\* came before.
C35_ReleasedRecordingStops ==
    (vh.recording_mode /\ ~vh.tab_physically_pressed)
    ~> (\/ ~vh.recording_mode /\ ~vh.recording_tail_active
        \/ vh.tab_physically_pressed)

\* the tail timer has stopped a recording whose key stayed released
C35_Witness_TailStoppedRecording ==
    /\ obs.op = "stop_recording_tail"
    /\ obs.was_recording
    /\ obs.was_tail
    /\ ~obs.was_pressed
    /\ ~vh.recording_mode
    /\ ~vh.recording_tail_active
    /\ ~vh.tab_physically_pressed

\* C36: the tail timer stops a recording only when the key has been released
\* without interruption for at least recording_tail_time since its most
\* recent release (tab_release_time, set by every release).  Timestamps older
\* than Oldest are not told apart, so the time since the release is compared
\* up to now - Oldest.
ReleasedFor == now - vh.tab_release_time

C36_TailStopsAfterFullTail ==
    (/\ obs.op = "stop_recording_tail"
     /\ obs.was_recording
     /\ ~vh.recording_mode)
    => /\ vh.tab_release_time # NoTime
       /\ ReleasedFor >= Min(recording_tail_time, now - Oldest)

\* C37: recording_tail_active becomes true only when the key has been
\* released without interruption for at least release_debounce_time since
\* its most recent release: the debounce check of an earlier release never
\* starts the tail early.
C37_TailStartsAfterFullDebounce ==
    (/\ obs.op = "check_tab_release_final"
     /\ ~obs.was_tail
     /\ vh.recording_tail_active)
    => /\ vh.tab_release_time # NoTime
       /\ ReleasedFor >= release_debounce_time

\* C38: at most one thread is executing engine.transcribe on the engine of a
\* service at any time, also when a transcription is requested while an
\* earlier one is still in flight.
C38_OneTranscribeAtATime ==
    Cardinality(InEngine) <= 1

\* C39: when the recorder captured at least one chunk during the recording
\* that stop_voice_recording ends, the audio is passed on (to
\* transcribe_async, or reported with on_transcription_error) and
\* on_recording_stop ("no audio") is not invoked, also when the capture
\* thread ended by itself before the stop.
C39_CapturedAudioIsPassedOn ==
    [][(/\ vh.recording_mode /\ ~vh'.recording_mode
        /\ vh.voice_recorder
        /\ rec.audio_data > 0)
       => (/\ ~Invoked(obs'.cb, "on_recording_stop")
           /\ \/ Invoked(obs'.cb, "transcribe_async")
              \/ Terminals(obs'.cb) = 1)]_vars

====
